---- MODULE Spec2Model ----
(***************************************************************************)
(* pycln/utils/config.py: construction of the Config dataclass, the        *)
(* ParseConfigFile loader it delegates to, and the validation that ends    *)
(* the construction.                                                       *)
(*                                                                         *)
(* One behaviour is one call Config(path=..., config=...).  Python values  *)
(* are records [t |-> type name, v |-> payload]; an object is the function *)
(* from its instance attribute names to their values.                     *)
(***************************************************************************)
EXTENDS Integers, Sequences, FiniteSets, TLC

\* Largest number of key/value pairs in the pycln section of a config file.
MaxPairs == 2

----------------------------------------------------------------------------
\* Python values.

None == [t |-> "NoneType", v |-> ""]
Bool(b) == [t |-> "bool", v |-> IF b THEN "true" ELSE "false"]
Str(s) == [t |-> "str", v |-> s]
PathOf(s) == [t |-> "Path", v |-> s]
Pattern(s) == [t |-> "Pattern", v |-> s]

\* str(x): booleans print capitalised, a compiled pattern prints its repr.
str(x) ==
  CASE x.t = "bool" -> (IF x.v = "true" THEN "True" ELSE "False")
    [] x.t = "NoneType" -> "None"
    [] x.t = "Pattern" -> "re.compile(" \o x.v \o ")"
    [] OTHER -> x.v

\* bool(x) as `not self.path` evaluates it: None, False and "" are falsy,
\* a Path object never is.
truthy(x) ==
  CASE x.t = "NoneType" -> FALSE
    [] x.t = "bool" -> x.v = "true"
    [] x.t = "str" -> x.v # ""
    [] OTHER -> TRUE

----------------------------------------------------------------------------
\* The file system the call runs against.

\* The scan paths a caller can name, and what each is on disk.
ScanPaths == {"pkg", "mod.py", "nowhere"}
PathKind(name) ==
  CASE name = "pkg" -> "dir"
    [] name = "mod.py" -> "file"
    [] OTHER -> "missing"
is_dir(p) == PathKind(p.v) = "dir"
is_file(p) == PathKind(p.v) = "file"

\* The name under which the one config file of the run is referenced.
ConfigFileName == "setup"

\* Constants (lines 17-23): extension -> section key.
CONFIG_SECTIONS == [e \in {".cfg", ".toml", ".json", ".yaml", ".yml"} |->
                      IF e = ".toml" THEN "tool.pycln" ELSE "pycln"]
Suffixes == DOMAIN CONFIG_SECTIONS \cup {".ini"}

----------------------------------------------------------------------------
\* The Config dataclass.

Fields == {"path", "config", "include", "exclude", "all_", "check", "diff",
           "verbose", "quiet", "silence", "expand_stars", "no_gitignore"}
Methods == {"__post_init__", "_check_path", "_check_regex", "get_relpath"}

\* regexu.INCLUDE_REGEX / regexu.EXCLUDE_REGEX, the built-in pattern sources.
INCLUDE_REGEX == Str("INCLUDE_REGEX")
EXCLUDE_REGEX == Str("EXCLUDE_REGEX")

\* The class-level default of a field (lines 41-51).
Default(f) ==
  CASE f = "config" -> None
    [] f = "include" -> INCLUDE_REGEX
    [] f = "exclude" -> EXCLUDE_REGEX
    [] OTHER -> Bool(FALSE)

\* Names for which hasattr(Config, name) holds: a dataclass keeps a class
\* attribute for every field that has a default (so not for `path`), and the
\* class has its methods and the members dataclass/object give it.
ClassAttrs == (Fields \ {"path"}) \cup Methods
                \cup {"__init__", "__repr__", "__eq__", "__doc__", "__class__"}
hasattr_Config(k) == k \in ClassAttrs

\* setattr gone wrong: the instance is rebuilt from the class defaults with
\* only k set, so what earlier assignments wrote is lost.
setattr_fresh(o, k, v) ==
  [a \in DOMAIN o \cup {k} |->
     IF a = k THEN v
     ELSE IF a \in Fields \ {"path", "config"} THEN Default(a) ELSE o[a]]

\* setattr(o, k, v) on an instance: writes the instance dictionary.
setattr(o, k, v) == [a \in DOMAIN o \cup {k} |-> IF a = k THEN v ELSE o[a]]

\* The generated __init__: every field from the arguments or its default.
Config(path, config) ==
  [f \in Fields |-> CASE f = "path" -> path
                      [] f = "config" -> config
                      [] OTHER -> Default(f)]

\* regexu.safe_compile(str, label): the strings that fail to compile.
InvalidPatterns == {"("}
safe_compile(s) == IF s \in InvalidPatterns THEN None ELSE Pattern(s)

----------------------------------------------------------------------------
\* Config files.  A file is its suffix, whether it exists, and what it says:
\* `kind` tells how much of the document is there, `content` is the pycln
\* section as its author meant it, a sequence of <<key, value>> pairs.
\*   "empty"      a document with no content (JSON: the empty object)
\*   "notool"     TOML with tables, none of them `tool`
\*   "nosection"  a document without the pycln section
\*   "section"    a document with the pycln section holding `content`

Toggles == {"all", "all_", "verbose"}
Keys == Toggles \cup {"path", "config", "include", "exclude", "colour"} \cup Methods

\* What the author of a file may write for a key.
ValuesFor(k) ==
  CASE k \in Toggles -> {Bool(TRUE), Bool(FALSE)}
    [] k \in {"include", "exclude"} -> {Str("\\.py$"), Str("(")}
    [] k = "config" -> {Str("other.toml")}
    [] k = "path" -> {Str("pkg")}
    [] OTHER -> {Str("x")}

Pairs == UNION {{<<k, v>> : v \in ValuesFor(k)} : k \in Keys}

\* Mappings: at most MaxPairs pairs, keys unique.
Contents ==
  UNION {{c \in [1..n -> Pairs] :
            \A i, j \in 1..n : i # j => c[i][1] # c[j][1]} : n \in 0..MaxPairs}

KindsOf(suffix) ==
  IF suffix = ".toml" THEN {"empty", "notool", "nosection", "section"}
                      ELSE {"empty", "nosection", "section"}

NoFile == [suffix |-> ".cfg", exists |-> FALSE, kind |-> "empty", content |-> <<>>]

Disks ==
  {[suffix |-> x, exists |-> FALSE, kind |-> "empty", content |-> <<>>] :
      x \in Suffixes}
  \cup {[suffix |-> ".ini", exists |-> TRUE, kind |-> "empty", content |-> <<>>]}
  \cup UNION {UNION {{[suffix |-> x, exists |-> TRUE, kind |-> k, content |-> c] :
                        c \in IF k = "section" THEN Contents ELSE {<<>>}} :
                     k \in KindsOf(x)} : x \in DOMAIN CONFIG_SECTIONS}

\* dict.get(key, default)
get(d, k, default) == IF k \in DOMAIN d THEN d[k] ELSE default

\* What each library hands back for a file.  A parsed document is
\* [t |-> "dict", d |-> function] or None.
Dict(f) == [t |-> "dict", d |-> f]

\* configparser keeps every value as the text written in the file (and
\* lower-cases the keys, which the keys of Keys already are).
CfgText(c) == [i \in 1..Len(c) |-> <<c[i][1], Str(c[i][2].v)>>]

configparser_sections(f) ==
  CASE f.kind = "section" -> Dict([s \in {"pycln"} |-> CfgText(f.content)])
    [] f.kind = "nosection" -> Dict([s \in {"metadata"} |-> <<>>])
    [] OTHER -> Dict(<<>>)

toml_load(f) ==
  CASE f.kind = "section" -> Dict([a \in {"tool"} |-> [b \in {"pycln"} |-> f.content]])
    [] f.kind = "nosection" -> Dict([a \in {"tool"} |-> [b \in {"black"} |-> <<>>]])
    [] f.kind = "notool" -> Dict([a \in {"project"} |-> <<>>])
    [] OTHER -> Dict(<<>>)

json_load(f) ==
  CASE f.kind = "section" -> Dict([a \in {"pycln"} |-> f.content])
    [] f.kind = "nosection" -> Dict([a \in {"name"} |-> <<>>])
    [] OTHER -> Dict(<<>>)

\* yaml.load of a document with no content is None.
yaml_load(f) ==
  CASE f.kind = "section" -> Dict([a \in {"pycln"} |-> f.content])
    [] f.kind = "nosection" -> Dict([a \in {"name"} |-> <<>>])
    [] OTHER -> None

\* The decoders up to their call of _config_loader: the exception raised, if
\* any, and the mapping handed to _config_loader.
Configs(c) == [exc |-> "", configs |-> c]
Raises(e) == [exc |-> e, configs |-> <<>>]

_parse_cfg(f, section) == Configs(get(configparser_sections(f).d, section, <<>>))

\* self._section.split(".") of the dotted TOML section key.
split(section) == IF section = "tool.pycln" THEN <<"tool", "pycln">> ELSE <<section>>

_parse_toml(f, section) ==
  LET tool == split(section)[1]
      pycln == split(section)[2]
  IN  Configs(get(get(toml_load(f).d, tool, <<>>), pycln, <<>>))

_parse_json(f, section) == Configs(get(json_load(f).d, section, <<>>))

_parse_yaml(f, section) ==
  LET parsed_yaml == yaml_load(f)
  IN  IF parsed_yaml.t = "dict"
      THEN Configs(get(parsed_yaml.d, section, <<>>))
      ELSE Raises("AttributeError")

_parse_yml(f, section) == _parse_yaml(f, section)

\* getattr(self, f"_parse_{suffix.strip('.')}")()
Decode(suffix, section, f) ==
  CASE suffix = ".cfg" -> _parse_cfg(f, section)
    [] suffix = ".toml" -> _parse_toml(f, section)
    [] suffix = ".json" -> _parse_json(f, section)
    [] suffix = ".yaml" -> _parse_yaml(f, section)
    [] suffix = ".yml" -> _parse_yml(f, section)

\* The substitution left out: the key is looked up as written.
subst_none(k) == k

\* Line 164, the reserved-name substitution: `all` ~> `all_`.
subst(k) == IF k = "all" THEN "all_" ELSE k

\* One turn of the loop of _config_loader.
LoadItem(o, kv) ==
  LET k == subst(kv[1])
  IN  IF hasattr_Config(k) THEN setattr(o, k, kv[2]) ELSE o

\* _config_loader as a whole: the loop over config_dict.items().
RECURSIVE LoadFrom(_, _, _)
LoadFrom(o, d, i) == IF i > Len(d) THEN o ELSE LoadFrom(LoadItem(o, d[i]), d, i + 1)
_config_loader(o, d) == IF d # <<>> THEN LoadFrom(o, d, 1) ELSE o

----------------------------------------------------------------------------
\* The state of one construction.

VARIABLES
  args,         \* the arguments of the call Config(path=..., config=...)
  disk,         \* the config file args.config names
  obj,          \* the Config instance: attribute name -> value
  pc,           \* where the construction is
  file_path,    \* __post_init__'s local, the argument of ParseConfigFile
  parser,       \* the ParseConfigFile instance: _path and _section
  config_dict,  \* the mapping _config_loader was called with
  idx,          \* the item of config_dict the loop of _config_loader is at
  exc,          \* the exception that ended the construction
  err,          \* the diagnostic written to the error stream
  log           \* what ran so far, in order

vars == <<args, disk, obj, pc, file_path, parser, config_dict, idx, exc, err, log>>

NoParser == [_path |-> None, _section |-> None]

Init ==
  /\ args \in [path : {PathOf(p) : p \in ScanPaths} \cup {None},
               config : {None, PathOf(ConfigFileName)}]
  /\ disk \in IF args.config = None THEN {NoFile} ELSE Disks
  /\ obj = Config(args.path, args.config)
  /\ pc = "__post_init__"
  /\ file_path = None
  /\ parser = NoParser
  /\ config_dict = <<>>
  /\ idx = 0
  /\ exc = ""
  /\ err = ""
  /\ log = <<>>

\* raise: the construction ends with exception e after writing msg.
Raise(e, msg) == pc' = "raised" /\ exc' = e /\ err' = msg

\* Instance attributes shadow the methods of the class: calling a name the
\* merge has set on the instance calls the value stored there.
Callable(o, m) == m \notin DOMAIN o

Passed == [exc |-> "", err |-> ""]
Failed(e, msg) == [exc |-> e, err |-> msg]

\* _check_path, lines 55-70.
_check_path(o) ==
  IF ~truthy(o.path) THEN Failed("Exit(1)", "No Path provided")
  ELSE IF o.path.t # "Path" THEN Failed("AttributeError", "")
  ELSE IF ~(is_dir(o.path) \/ is_file(o.path))
       THEN Failed("Exit(1)", "is not a directory or a file")
  ELSE Passed

\* _check_regex gone wrong: exclude is compiled but the result is not stored.
_check_regex_unstored(o) ==
  LET include == safe_compile(str(o.include))
      exclude == safe_compile(str(o.exclude))
  IN  IF include = None
      THEN [exc |-> "Exit(1)", err |-> "Invalid include regex", obj |-> o,
            ran |-> <<"compile include">>]
      ELSE IF exclude = None
      THEN [exc |-> "Exit(1)", err |-> "Invalid exclude regex",
            obj |-> setattr(o, "include", include),
            ran |-> <<"compile include", "compile exclude">>]
      ELSE [exc |-> "", err |-> "",
            obj |-> setattr(o, "include", include),
            ran |-> <<"compile include", "compile exclude">>]

\* _check_regex gone wrong: exclude is compiled before include.
_check_regex_exclude_first(o) ==
  LET include == safe_compile(str(o.include))
      exclude == safe_compile(str(o.exclude))
  IN  IF exclude = None
      THEN [exc |-> "Exit(1)", err |-> "Invalid exclude regex", obj |-> o,
            ran |-> <<"compile exclude">>]
      ELSE IF include = None
      THEN [exc |-> "Exit(1)", err |-> "Invalid include regex",
            obj |-> setattr(o, "exclude", exclude),
            ran |-> <<"compile exclude", "compile include">>]
      ELSE [exc |-> "", err |-> "",
            obj |-> setattr(setattr(o, "include", include), "exclude", exclude),
            ran |-> <<"compile exclude", "compile include">>]

\* _check_regex, lines 74-79: include is compiled and stored, then exclude.
\* `ran` lists the compilations attempted, in order.
_check_regex(o) ==
  LET include == safe_compile(str(o.include))
      exclude == safe_compile(str(o.exclude))
  IN  IF include = None
      THEN [exc |-> "Exit(1)", err |-> "Invalid include regex", obj |-> o,
            ran |-> <<"compile include">>]
      ELSE IF exclude = None
      THEN [exc |-> "Exit(1)", err |-> "Invalid exclude regex",
            obj |-> setattr(o, "include", include),
            ran |-> <<"compile include", "compile exclude">>]
      ELSE [exc |-> "", err |-> "",
            obj |-> setattr(setattr(o, "include", include), "exclude", exclude),
            ran |-> <<"compile include", "compile exclude">>]

\* __post_init__, lines 37-38: self._check_path() then self._check_regex().
validate(o) ==
  IF ~Callable(o, "_check_path")
  THEN [exc |-> "TypeError", err |-> "", obj |-> o, ran |-> <<>>]
  ELSE LET p == _check_path(o)
       IN  IF p.exc # ""
           THEN [exc |-> p.exc, err |-> p.err, obj |-> o, ran |-> <<"_check_path">>]
           ELSE IF ~Callable(o, "_check_regex")
           THEN [exc |-> "TypeError", err |-> "", obj |-> o, ran |-> <<"_check_path">>]
           ELSE LET r == _check_regex(o)
                IN  [r EXCEPT !.ran = <<"_check_path">> \o r.ran]

\* The checks of parse in the other order: format first, existence second.
parse_checks_swapped(exists, section) ==
  IF section = None THEN Failed("Exit(1)", "is not supported")
  ELSE IF ~exists THEN Failed("Exit(1)", "does not exist")
  ELSE Passed

\* parse, lines 111-123: the checks before the dispatch.
parse_checks(exists, section) ==
  IF ~exists THEN Failed("Exit(1)", "does not exist")
  ELSE IF section = None THEN Failed("Exit(1)", "is not supported")
  ELSE Passed

\* __post_init__, lines 32-35: the config file is taken and cleared.
PostInitLoad ==
  /\ pc = "__post_init__"
  /\ obj.config # None
  /\ file_path' = obj.config
  /\ obj' = setattr(obj, "config", None)
  /\ pc' = "ParseConfigFile"
  /\ log' = Append(log, "ParseConfigFile")
  /\ UNCHANGED <<args, disk, parser, config_dict, idx, exc, err>>

\* ParseConfigFile.__init__, lines 103-105.
ParserInit ==
  /\ pc = "ParseConfigFile"
  /\ IF file_path.t = "Path"
     THEN /\ parser' = [_path |-> file_path,
                        _section |-> IF disk.suffix \in DOMAIN CONFIG_SECTIONS
                                     THEN Str(CONFIG_SECTIONS[disk.suffix])
                                     ELSE None]
          /\ pc' = "parse"
          /\ UNCHANGED <<exc, err>>
     ELSE /\ Raise("AttributeError", "")
          /\ UNCHANGED parser
  /\ UNCHANGED <<args, disk, obj, file_path, config_dict, idx, log>>

\* ParseConfigFile.parse, lines 111-124, and the decoder it dispatches to, up
\* to the decoder's call of _config_loader.
parse ==
  /\ pc = "parse"
  /\ LET c == parse_checks(disk.exists, parser._section)
     IN  IF c.exc # ""
         THEN Raise(c.exc, c.err) /\ UNCHANGED <<config_dict, idx, log>>
         ELSE LET r == Decode(disk.suffix, parser._section.v, disk)
              IN  /\ log' = Append(log, "decode")
                  /\ IF r.exc # ""
                     THEN Raise(r.exc, "") /\ UNCHANGED <<config_dict, idx>>
                     ELSE /\ config_dict' = r.configs
                          /\ idx' = 1
                          /\ pc' = "_config_loader"
                          /\ UNCHANGED <<exc, err>>
  /\ UNCHANGED <<args, disk, obj, file_path, parser>>

\* _config_loader, lines 161-166: one item of the mapping.
LoadStep ==
  /\ pc = "_config_loader"
  /\ idx <= Len(config_dict)
  /\ obj' = LoadItem(obj, config_dict[idx])
  /\ idx' = idx + 1
  /\ UNCHANGED <<args, disk, pc, file_path, parser, config_dict, exc, err, log>>

\* _config_loader returns, and with it the decoder and parse.
LoadReturn ==
  /\ pc = "_config_loader"
  /\ idx > Len(config_dict)
  /\ pc' = "reenter"
  /\ UNCHANGED <<args, disk, obj, file_path, parser, config_dict, idx, exc, err, log>>

\* ParseConfigFile.__init__, line 107: self._config.__post_init__().
Reenter ==
  /\ pc = "reenter"
  /\ IF Callable(obj, "__post_init__")
     THEN pc' = "__post_init__" /\ UNCHANGED <<exc, err>>
     ELSE Raise("TypeError", "")
  /\ UNCHANGED <<args, disk, obj, file_path, parser, config_dict, idx, log>>

\* __post_init__, lines 36-38: the validation branch.
PostInitValidate ==
  /\ pc = "__post_init__"
  /\ obj.config = None
  /\ LET r == validate(obj)
     IN  /\ obj' = r.obj
         /\ log' = log \o r.ran
         /\ IF r.exc # ""
            THEN Raise(r.exc, r.err)
            ELSE pc' = "returned" /\ UNCHANGED <<exc, err>>
  /\ UNCHANGED <<args, disk, file_path, parser, config_dict, idx>>

Next ==
  \/ PostInitLoad
  \/ ParserInit
  \/ parse
  \/ LoadStep
  \/ LoadReturn
  \/ Reenter
  \/ PostInitValidate

Spec == Init /\ [][Next]_vars

----------------------------------------------------------------------------
\* What the claims speak of.

\* How often, and where first, an event is in the log.
Count(e) == Cardinality({i \in DOMAIN log : log[i] = e})
Ran(e) == \E i \in DOMAIN log : log[i] = e
Before(a, b) == \E i, j \in DOMAIN log : i < j /\ log[i] = a /\ log[j] = b

\* The instance as __post_init__ hands it to ParseConfigFile: built from the
\* arguments, config cleared.
Base == setattr(Config(args.path, args.config), "config", None)

\* The instance a call without a config file starts from.
Plain == Config(args.path, None)

KeysOf(d) == {d[i][1] : i \in DOMAIN d}
NamesField(kv) == subst(kv[1]) \in Fields
Orders(n) == {p \in [1..n -> 1..n] : \A i, j \in 1..n : i # j => p[i] # p[j]}
Reordered(d, p) == [i \in DOMAIN d |-> d[p[i]]]

\* The merge of the file's mapping is over and nothing else has touched obj.
Merged == pc = "reenter"
\* The loop of _config_loader has just applied item idx - 1.
Applied == pc = "_config_loader" /\ idx > 1
Ended == pc \in {"returned", "raised"}
Outcome == [exc |-> exc, err |-> err, obj |-> obj]
OutcomeOf(o) == [f \in {"exc", "err", "obj"} |-> validate(o)[f]]

GoodPath(o) == truthy(o.path) /\ o.path.t = "Path" /\ (is_dir(o.path) \/ is_file(o.path))

----------------------------------------------------------------------------
\* C1: when the construction returns, path is an existing directory or file
\* and include and exclude are compiled patterns, whatever the file supplied.
C1_ValidatedOnSuccess ==
  pc = "returned" =>
    /\ GoodPath(obj)
    /\ obj.include.t = "Pattern" /\ obj.include.v \notin InvalidPatterns
    /\ obj.exclude.t = "Pattern" /\ obj.exclude.v \notin InvalidPatterns

\* A construction that returned after a file overrode include and exclude.
C1_Witness ==
  /\ pc = "returned"
  /\ {"include", "exclude"} \subseteq KeysOf(config_dict)

\* C2: ParseConfigFile is entered at most once in a construction, and the
\* __post_init__ that runs after the merge finds config cleared.
C2_LoadedAtMostOnce ==
  /\ Count("ParseConfigFile") <= 1
  /\ (pc = "__post_init__" /\ Ran("ParseConfigFile") => obj.config = None)

\* C3: keys that name no field of the schema are ignored: the merge adds no
\* attribute, and the merged instance and the outcome of the construction are
\* those of the same mapping without such keys.
C3_UnknownKeysIgnored ==
  LET kept == SelectSeq(config_dict, NamesField)
  IN  /\ DOMAIN obj = Fields
      /\ (Merged => obj = _config_loader(Base, kept))
      /\ (Ended /\ idx = Len(config_dict) + 1 /\ Count("ParseConfigFile") = 1 =>
            Outcome = OutcomeOf(_config_loader(Base, kept)))

\* C4: an item whose (substituted) key names a field of the schema overwrites
\* that field with exactly the item's value.
C4_FieldOverwritten ==
  Applied =>
    LET kv == config_dict[idx - 1]
    IN  NamesField(kv) => obj[subst(kv[1])] = kv[2]

\* C5: an item with key `all` sets all_ to the item's value, no attribute
\* named `all` ever exists, and {all: true, verbose: true} merged onto the
\* defaults changes all_ and verbose to true and nothing else.
C5_AllSetsAllFlag ==
  /\ "all" \notin DOMAIN obj
  /\ (Applied /\ config_dict[idx - 1][1] = "all" => obj.all_ = config_dict[idx - 1][2])
  /\ (Merged /\ config_dict = <<<<"all", Bool(TRUE)>>, <<"verbose", Bool(TRUE)>>>> =>
        obj = [Base EXCEPT !.all_ = Bool(TRUE), !.verbose = Bool(TRUE)])

\* The example mapping has been merged.
C5_Witness ==
  /\ Merged
  /\ config_dict = <<<<"all", Bool(TRUE)>>, <<"verbose", Bool(TRUE)>>>>
  /\ obj.all_ = Bool(TRUE)

\* C6: the same section content, written in each of the supported formats,
\* merges to the same instance.
C6_FormatsAgree ==
  Merged /\ disk.kind = "section" =>
    \A e \in DOMAIN CONFIG_SECTIONS :
      LET r == Decode(e, CONFIG_SECTIONS[e], [disk EXCEPT !.suffix = e])
      IN  r.exc = "" /\ _config_loader(Base, r.configs) = obj

\* C7: once parse has run, a missing file has ended the construction with
\* Exit(1) as missing (whatever its extension) and an existing file of an
\* unsupported extension as unsupported; no decoder ran, no validation ran,
\* and the instance is as it was handed over.
C7_ExistenceBeforeFormat ==
  LET unsupported == disk.suffix \notin DOMAIN CONFIG_SECTIONS
      stopped(msg) == /\ pc = "raised" /\ exc = "Exit(1)" /\ err = msg
                      /\ log = <<"ParseConfigFile">>
                      /\ config_dict = <<>>
                      /\ obj = Base
  IN  parser # NoParser /\ pc # "parse" =>
        /\ (~disk.exists => stopped("does not exist"))
        /\ (disk.exists /\ unsupported => stopped("is not supported"))

\* A file that is both missing and of an unsupported extension was reported.
C7_Witness ==
  /\ pc = "raised"
  /\ ~disk.exists
  /\ disk.suffix \notin DOMAIN CONFIG_SECTIONS
  /\ parser # NoParser

\* C8: a valid file of a supported format whose section is absent or empty
\* decodes to the empty mapping without an error, and the construction ends
\* as the one without a config file does.
C8_AbsentSectionIsDefaults ==
  LET sectionless == /\ disk.exists
                     /\ disk.suffix \in DOMAIN CONFIG_SECTIONS
                     /\ (disk.kind # "section" \/ disk.content = <<>>)
  IN  sectionless /\ Ran("decode") =>
        /\ config_dict = <<>>
        /\ (Merged => obj = Base)
        /\ (Ended => Outcome = OutcomeOf(Plain))

\* C9: validation is ordered and fail-fast.  Patterns are compiled only after
\* the path check has passed, include before exclude and exclude only after
\* include compiled; a path check that fails ends the construction with
\* Exit(1) and nothing compiled; a failed compilation ends it with Exit(1);
\* and once the construction has ended nothing more runs.
C9_ValidationOrdered ==
  /\ (Ran("compile include") =>
        Before("_check_path", "compile include") /\ GoodPath(obj))
  /\ (Ran("compile exclude") =>
        /\ Before("compile include", "compile exclude")
        /\ obj.include.t = "Pattern")
  /\ (~GoodPath(obj) =>
        /\ pc # "returned"
        /\ ~Ran("compile include") /\ ~Ran("compile exclude")
        /\ (Ran("_check_path") =>
              /\ pc = "raised" /\ exc = "Exit(1)"
              /\ err \in {"No Path provided", "is not a directory or a file"}))
  /\ (pc = "raised" /\ Ran("compile include") =>
        /\ exc = "Exit(1)"
        /\ IF obj.include.t = "Pattern"
           THEN err = "Invalid exclude regex" /\ obj.exclude.t # "Pattern"
           ELSE err = "Invalid include regex" /\ ~Ran("compile exclude"))
  /\ (pc = "raised" => ~ENABLED Next)

\* include and exclude are both bad, and only include was compiled.
C9_Witness ==
  /\ pc = "raised"
  /\ err = "Invalid include regex"
  /\ str(obj.exclude) \in InvalidPatterns

\* C10 as stated: the merge gives the same instance for every order of the
\* mapping's items.
C10_OrderIndependent ==
  Merged =>
    \A p \in Orders(Len(config_dict)) :
      _config_loader(Base, Reordered(config_dict, p)) = obj

\* C10 as amended: the merge gives the same instance for every order of the
\* mapping's items, unless the mapping holds both `all` and `all_`.
C10_OrderIndependentUnlessAliased ==
  Merged /\ ~({"all", "all_"} \subseteq KeysOf(config_dict)) =>
    \A p \in Orders(Len(config_dict)) :
      _config_loader(Base, Reordered(config_dict, p)) = obj

\* Two items, both written to the instance, have been merged.
C10_Witness ==
  /\ Merged
  /\ Len(config_dict) = 2
  /\ KeysOf(config_dict) = {"all", "verbose"}
  /\ obj.verbose = config_dict[2][2] \/ obj.verbose = config_dict[1][2]
  /\ obj # Base

====
